---- MODULE Spec2Model ----
(***************************************************************************)
(* GhostChat: the streaming completion relay (POST /api/chat/stream), the  *)
(* client-side reassembly in ChatWindow (handleSendMessage, the batched    *)
(* UI update, handleCancelResponse) and the conversation builder.          *)
(*                                                                         *)
(* Text is modelled as a sequence of characters, so that concatenation is  *)
(* \o, the empty string is <<>> and JavaScript truthiness of a string is   *)
(* "is not <<>>".  A marker is a one-element text.                         *)
(***************************************************************************)
EXTENDS Integers, Sequences, FiniteSets, TLC

\* ---------------------------------------------------------------- bounds
MaxFrags == 3

MaxSends == 2

MaxSessions == 2

\* Fragments per session when several sessions follow one another.
MaxSessionFrags == 1

\* Calls of checkRateLimit and advances of the clock in one run.
MaxCalls == 12

MaxTicks == 2

\* The largest maxRetries generateWithRetry is called with.
MaxMaxRetries == 4

\* Rows of table messages up to which other windows insert.
MaxRows == 3

\* Changes of the textarea of SystemPromptEditor.
MaxEdits == 3

\* Authentication events and sign-outs seen by one mounted ChatPage.
MaxAuthEvents == 3

\* The deltas the provider can emit: the empty delta and two one-letter ones.
Frags == { <<>>, <<"a">>, <<"b">> }

\* ------------------------------------------------------- program constants
InterruptedMarker == << " [Response interrupted]" >>

CancelledMarker == << " [Response cancelled]" >>

ErrorPlaceholder == << "Sorry, there was an error generating the response. Please try again." >>

DefaultPrompt == << "You are a helpful assistant." >>

NoMessage == [present |-> FALSE, id |-> "none", content |-> <<>>]

TempStreamingMessage == [present |-> TRUE, id |-> "streaming", content |-> <<>>]

VARIABLES
    \* ---- configuration of the documented client
    batching,          \* processStreamChunk is used in the reader loop
    errorRecovery,     \* the "client-side error recovery" catch block is used
    session,           \* number of the stream session (send) being modelled
    sessionBase,       \* Len(db) when the session started
    fragLimit,         \* how many fragments the upstream of a session may produce
    \* ---- checkRateLimit (OpenAI integration, rate limiting)
    now,               \* Date.now(), in ms
    userRateLimits,    \* the Map userId -> { count, resetTime }
    grants,            \* per user, the times at which checkRateLimit returned true
    calls,             \* number of calls of checkRateLimit so far
    ticks,             \* number of advances of the clock so far
    \* ---- generateWithRetry
    retry500,          \* the variant that also retries status 500 is in use
    maxRetries,
    retries,           \* let retries
    retryPc,           \* position of generateWithRetry
    attempts,          \* statuses answered by generateChatCompletion, in order
    delays,            \* the delays of the setTimeouts awaited, in order
    \* ---- AuthProvider and ChatPage (src/app/chat/[id]/page.tsx)
    authLoading,       \* state loading of AuthProvider
    authUser,          \* state user of AuthProvider: a user id or "none"
    sessionPc,         \* position of checkSession
    signOutPc,         \* position of signOut
    authEvents,        \* number of auth events and sign-outs so far
    pageView,          \* what ChatPage returned at its last render
    effectPending,     \* the effect of ChatPage is scheduled and has not run
    redirectIssued,    \* router.push('/') was called since the last render
    chatShown,         \* ChatWindow has been rendered at some time
    \* ---- POST /api/chat/stream
    routePc,           \* position of the route handler / ReadableStream.start
    fullResponse,      \* let fullResponse
    received,          \* every delta the for-await loop has taken from upstream
    upstream,          \* how the upstream sequence stands: open, ended, faulted,
                       \* or the status with which the provider rejected the request
    sent,              \* every chunk handed to controller.enqueue successfully
    ctrl,              \* state of the ReadableStream given to the Response
    response,          \* the HTTP response the route returned
    \* ---- transport
    net,               \* chunks enqueued and not yet read by the client
    abortSignalled,    \* the client aborted the fetch
    \* ---- store
    db,                \* assistant rows of table messages, in insertion order
    storeFailed,       \* some insert was answered with an error
    \* ---- ChatWindow (streaming variant)
    clientPc,          \* position of handleSendMessage
    isProcessing,
    streamingMessage,
    abortController,   \* abortController state is non-null
    pendingContent,    \* pendingContent.current
    updateInterval,    \* updateInterval.current is non-null
    errorTimer,        \* the 5000 ms setTimeout of the error recovery is armed
    cancelInsert,      \* the insert issued by handleCancelResponse
    uiCrashed,         \* an updater dereferenced a null streamingMessage
    cancelInvoked,     \* handleCancelResponse ran its body
    cancelAt,          \* Len(received) when the fetch was aborted, -1 before
    cancelPhase,       \* routePc when the fetch was aborted, "none" before
    markedMessage,     \* the message as marked by handleCancelResponse
    \* ---- store: table chats and all rows of table messages of the chat
    dbPrompt,          \* chats.system_prompt
    msgTable,          \* rows {role, content} in created_at order
    \* ---- ChatWindow (src/components/ChatWindow.tsx)
    chat,              \* state chat
    messages,          \* state messages
    isLoading,
    newMessage,        \* state newMessage (the input)
    fetchPc,           \* position of fetchChat
    fetchData,         \* what the select of the messages answered
    channel,           \* realtime INSERT notifications not yet delivered
    sendPc,            \* position of handleSendMessage
    closure,           \* chat, messages, userMessage seen by the running handler
    posted,            \* body.messages of the request to /api/chat
    priorAtPost,       \* msgTable before the user row of the posted turn
    sends,             \* number of submits so far
    refusedBusy,       \* a submit returned at the guard during the send in flight
    \* ---- SystemPromptEditor (src/components/SystemPromptEditor.tsx)
    prompt,            \* state prompt
    isEditing,
    isSaving,
    saveArg,           \* the prompt handed to onSave by the running handleSave
    edits,             \* number of changes of the textarea so far
    \* ---- POST /api/chat (src/app/api/chat/route.ts)
    apiPc,
    aiResponse,
    apiResponse,
    apiLog             \* what the running request was given and has done

vars == << batching, errorRecovery, session, sessionBase, fragLimit, now,
           userRateLimits, grants, calls, ticks, retry500, maxRetries,
           retries, retryPc, attempts, delays, authLoading, authUser,
           sessionPc, signOutPc, authEvents, pageView, effectPending,
           redirectIssued, chatShown, routePc, fullResponse, received, upstream,
           sent, ctrl,
           response, net, abortSignalled, db, storeFailed, clientPc,
           isProcessing, streamingMessage, abortController, pendingContent,
           updateInterval, errorTimer, cancelInsert, uiCrashed, cancelInvoked,
           cancelAt, cancelPhase, markedMessage, dbPrompt, msgTable, chat,
           messages, isLoading, newMessage, fetchPc, fetchData, channel,
           sendPc, closure, posted, priorAtPost, sends, refusedBusy, prompt,
           isEditing, isSaving, saveArg, edits, apiPc, aiResponse,
           apiResponse, apiLog >>

routeVars == << routePc, fullResponse, received, upstream, sent, ctrl,
               response >>

clientVars == << clientPc, isProcessing, streamingMessage, abortController,
                 pendingContent, updateInterval, errorTimer, cancelInsert,
                 uiCrashed, cancelInvoked, cancelAt, cancelPhase,
                 markedMessage >>

\* What no step of a session changes: the variant of the client in use and
\* the bookkeeping of the session.
\* The variables of checkRateLimit.
rateVars == << now, userRateLimits, grants, calls, ticks >>

\* The variables of generateWithRetry.
retryVars == << retry500, maxRetries, retries, retryPc, attempts, delays >>

\* The variables of AuthProvider and ChatPage.
pageVars == << authLoading, authUser, sessionPc, signOutPc, authEvents,
              pageView, effectPending, redirectIssued, chatShown >>

\* The variables of the helpers that stand beside the chat.
auxVars == << rateVars, retryVars, pageVars >>

\* The variant of the streaming client in use and the bookkeeping of the
\* session.
sessionVars == << batching, errorRecovery, session, sessionBase, fragLimit >>

configVars == << sessionVars, auxVars >>

\* The variables of SystemPromptEditor.
editorVars == << prompt, isEditing, isSaving, saveArg, edits >>

\* The variables of the non-streaming ChatWindow and of POST /api/chat.
chatVars == << dbPrompt, msgTable, chat, messages, isLoading, newMessage,
               fetchPc, fetchData, channel, sendPc, closure, posted,
               priorAtPost, sends, refusedBusy, editorVars, apiPc, aiResponse, apiResponse, apiLog >>

\* The variables of the chat: both ChatWindows, both routes, the store.
appVars == << sessionVars, chatVars, routeVars, clientVars, net,
             abortSignalled, db, storeFailed >>

\* chatVars without the realtime channel, which every insert writes to.
chatRest == << dbPrompt, msgTable, chat, messages, isLoading, newMessage,
               fetchPc, fetchData, sendPc, closure, posted, priorAtPost,
               sends, refusedBusy, editorVars, apiPc, aiResponse, apiResponse, apiLog >>

\* The variables of the streaming session other than isProcessing.
streamVars == << configVars, routeVars, net, abortSignalled, db, storeFailed,
                 clientPc, streamingMessage, abortController, pendingContent,
                 updateInterval, errorTimer, cancelInsert, uiCrashed,
                 cancelInvoked, cancelAt, cancelPhase, markedMessage >>

Users == { "u1", "u2" }

\* userRateLimits.get(userId) of a user the Map has no entry for.
NoLimit == [present |-> FALSE, count |-> 0, resetTime |-> 0]

\* The module of checkRateLimit has just been loaded: the Map is empty.
RateIdle ==
    /\ now = 0
    /\ userRateLimits = [u \in Users |-> NoLimit]
    /\ grants = [u \in Users |-> <<>>]
    /\ calls = 0
    /\ ticks = 0

\* generateWithRetry is not running.
RetryIdle ==
    /\ retry500 = FALSE
    /\ maxRetries = 3
    /\ retries = 0
    /\ retryPc = "idle"
    /\ attempts = <<>>
    /\ delays = <<>>

\* The chat page is shown to a signed-in user.
PageIdle ==
    /\ authLoading = FALSE
    /\ authUser = "u1"
    /\ sessionPc = "done"
    /\ signOutPc = "idle"
    /\ authEvents = 0
    /\ pageView = "chat"
    /\ effectPending = FALSE
    /\ redirectIssued = FALSE
    /\ chatShown = TRUE

\* The helpers before their first use.
AuxIdle ==
    /\ RateIdle
    /\ RetryIdle
    /\ PageIdle

\* A system prompt as stored: SQL null, or a text (possibly empty).
NullPrompt == [isNull |-> TRUE, text |-> <<>>]

PromptOf(t) == [isNull |-> FALSE, text |-> t]

NoChat == [loaded |-> FALSE, system_prompt |-> NullPrompt]

NoClosure == [chat |-> NoChat, messages |-> <<>>,
              userMessage |-> [role |-> "user", content |-> <<>>]]

NoInsert == [pending |-> FALSE, content |-> <<>>]

\* A request to /api/chat that has not run any of its steps yet.
NoApiLog == [token |-> TRUE, userOk |-> TRUE, chatOk |-> TRUE,
             providerCalls |-> 0, providerThrew |-> FALSE,
             inserts |-> 0, insertError |-> FALSE]

\* A row of table messages written for the assistant; "by" records the writer.
AssistantRow(content, by) == [role |-> "assistant", content |-> content, by |-> by]

\* supabase.from('messages').insert([...]) : the row is stored and the
\* subscribers of the chat are notified, or the call resolves with an error
\* object and nothing is stored.
StoreInsert(row, ok) ==
    /\ db' = IF ok THEN Append(db, row) ELSE db
    /\ channel' = IF ok THEN Append(channel, row) ELSE channel
    /\ storeFailed' = (storeFailed \/ ~ok)

\* ------------------------------------------------------------------ Init
\* handleSendMessage has inserted the user message, built allMessages, set
\* the temporary streaming message and the AbortController and issued the
\* fetch; the route has passed its authentication checks.
ChatIdle ==
    /\ dbPrompt = NullPrompt
    /\ msgTable = <<>>
    /\ chat = NoChat
    /\ messages = <<>>
    /\ isLoading = FALSE
    /\ newMessage = <<>>
    /\ fetchPc = "done"
    /\ fetchData = [ok |-> TRUE, rows |-> <<>>]
    /\ channel = <<>>
    /\ sendPc = "idle"
    /\ closure = NoClosure
    /\ posted = <<>>
    /\ priorAtPost = <<>>
    /\ sends = 0
    /\ refusedBusy = FALSE
    /\ prompt = <<>>
    /\ isEditing = FALSE
    /\ isSaving = FALSE
    /\ saveArg = <<>>
    /\ edits = 0
    /\ apiPc = "idle"
    /\ aiResponse = <<>>
    /\ apiResponse = "none"
    /\ apiLog = NoApiLog

Init ==
    /\ ChatIdle
    /\ batching \in BOOLEAN
    /\ errorRecovery \in BOOLEAN
    /\ session = 1
    /\ sessionBase = 0
    /\ fragLimit = MaxFrags
    /\ AuxIdle
    /\ routePc = "open"
    /\ fullResponse = <<>>
    /\ received = <<>>
    /\ upstream = "open"
    /\ sent = <<>>
    /\ ctrl = "none"
    /\ response = "none"
    /\ net = <<>>
    /\ abortSignalled = FALSE
    /\ db = <<>>
    /\ storeFailed = FALSE
    /\ clientPc = "fetch"
    /\ isProcessing = TRUE
    /\ streamingMessage = TempStreamingMessage
    /\ abortController = TRUE
    /\ pendingContent = <<>>
    /\ updateInterval = FALSE
    /\ errorTimer = FALSE
    /\ cancelInsert = NoInsert
    /\ uiCrashed = FALSE
    /\ cancelInvoked = FALSE
    /\ cancelAt = -1
    /\ cancelPhase = "none"
    /\ markedMessage = NoMessage

\* ------------------------------------------------- POST /api/chat/stream
\* catch (error) of ReadableStream.start with the interruption handling:
\* a non-empty fullResponse is saved with the marker, then controller.error.
\* Gives the position after the throw for the value fr of fullResponse.
CatchEntry(fr) == IF fr # <<>> THEN "catchInsert" ELSE "errored"

\* controller.error(e) changes the stream only while it is readable.
ControllerError(c) == IF c = "readable" THEN "errored" ELSE c

\* await generateStreamingChatCompletion(messages) resolves: the stream is
\* created, start() runs up to its first await and the Response is returned.
RouteOpenUpstream ==
    /\ routePc = "open"
    /\ routePc' = "relay"
    /\ ctrl' = "readable"
    /\ response' = "ok"
    /\ UNCHANGED << fullResponse, received, upstream, sent, net, abortSignalled, db,
                    storeFailed, clientVars, configVars, chatVars >>

\* The statuses with which the provider rejects a request: rate limit
\* exceeded, invalid request (maximum context length).
ProviderErrors == { "429", "400" }

\* The outer catch of the route: whatever was thrown, the answer is
\* { error: 'Internal server error' } with status 500.
OpenFailureResponse(status) == "500"

\* await generateStreamingChatCompletion(messages) rejects: the outer catch.
RouteOpenFails(status) ==
    /\ routePc = "open"
    /\ routePc' = "failed"
    /\ upstream' = status
    /\ response' = OpenFailureResponse(status)
    /\ UNCHANGED << fullResponse, received, sent, ctrl, net, abortSignalled,
                    db, channel, storeFailed, clientVars, configVars, chatRest >>

\* A relay that puts the newest fragment in front.
AccumulateMutant(fr, content) == content \o fr

\* fullResponse += content
Accumulate(fr, content) == fr \o content

\* One iteration of for await (const chunk of openaiStream).
RouteChunk(content) ==
    /\ routePc = "relay"
    /\ Len(received) < fragLimit
    /\ received' = Append(received, content)
    /\ IF content # <<>>
       THEN /\ fullResponse' = Accumulate(fullResponse, content)
            /\ IF ctrl = "readable"
               THEN /\ sent' = Append(sent, content)
                    /\ net' = Append(net, content)
                    /\ UNCHANGED << routePc, ctrl >>
               ELSE \* controller.enqueue throws a TypeError
                    /\ routePc' = CatchEntry(fullResponse')
                    /\ ctrl' = ControllerError(ctrl)
                    /\ UNCHANGED << sent, net >>
       ELSE UNCHANGED << fullResponse, sent, net, routePc, ctrl >>
    /\ UNCHANGED << upstream, response, abortSignalled, db, storeFailed, clientVars,
                    configVars, chatVars >>

\* The upstream sequence ends: the loop is left and the insert is awaited.
RouteUpstreamEnd ==
    /\ routePc = "relay"
    /\ routePc' = "insert"
    /\ upstream' = "ended"
    /\ UNCHANGED << fullResponse, received, sent, ctrl, response, net,
                    abortSignalled, db, storeFailed, clientVars, configVars, chatVars >>

\* The upstream sequence raises: catch.
RouteUpstreamFault ==
    /\ routePc = "relay"
    /\ routePc' = CatchEntry(fullResponse)
    /\ upstream' = "faulted"
    /\ ctrl' = IF fullResponse # <<>> THEN ctrl ELSE ControllerError(ctrl)
    /\ UNCHANGED << fullResponse, received, sent, response, net,
                    abortSignalled, db, storeFailed, clientVars, configVars, chatVars >>

\* The completion insert resolves (its error, if any, is not looked at), then
\* controller.close(), which throws when the stream is no longer readable.
RouteInsertDone(ok) ==
    /\ routePc = "insert"
    /\ StoreInsert(AssistantRow(fullResponse, "route"), ok)
    /\ IF ctrl = "readable"
       THEN /\ ctrl' = "closed"
            /\ routePc' = "closed"
       ELSE /\ routePc' = CatchEntry(fullResponse)
            /\ ctrl' = ctrl
    /\ UNCHANGED << fullResponse, received, upstream, sent, response, net,
                    abortSignalled, clientVars, configVars, chatRest >>

\* The insert of the catch block resolves, then controller.error(error).
RouteCatchInsertDone(ok) ==
    /\ routePc = "catchInsert"
    /\ StoreInsert(AssistantRow(fullResponse \o InterruptedMarker, "route"), ok)
    /\ ctrl' = ControllerError(ctrl)
    /\ routePc' = "errored"
    /\ UNCHANGED << fullResponse, received, upstream, sent, response, net,
                    abortSignalled, clientVars, configVars, chatRest >>

\* The aborted request reaches the server: the response stream is cancelled.
\* The stream has no cancel() callback, so nothing else happens.
AbortPropagates ==
    /\ abortSignalled
    /\ ctrl = "readable"
    /\ ctrl' = "cancelled"
    /\ net' = <<>>
    /\ UNCHANGED << routePc, fullResponse, received, upstream, sent, response,
                    abortSignalled, db, storeFailed, clientVars, configVars, chatVars >>

\* ------------------------------------------- ChatWindow, streaming variant
\* catch (error) of handleSendMessage followed by finally: the base variant
\* clears the streaming message, the error-recovery variant replaces it by
\* a placeholder and arms a 5000 ms timer that clears it.
ClientCatch ==
    /\ streamingMessage' = IF errorRecovery
                           THEN [present |-> TRUE, id |-> "error",
                                 content |-> ErrorPlaceholder]
                           ELSE NoMessage
    /\ errorTimer' = (errorTimer \/ errorRecovery)
    /\ isProcessing' = FALSE
    /\ clientPc' = "done"

\* Event-loop tasks of the page run only when no continuation of
\* handleSendMessage is waiting as a microtask.
TaskMayRun == clientPc # "abortCatch"

\* await fetch(...) resolves with the route's response.
ClientFetchResolved ==
    /\ clientPc = "fetch"
    /\ response # "none"
    /\ IF response = "ok"
       THEN /\ clientPc' = "read"
            /\ UNCHANGED << isProcessing, streamingMessage, errorTimer >>
       ELSE ClientCatch    \* throw new Error('Failed to get AI response')
    /\ UNCHANGED << routeVars, net, abortSignalled, db, storeFailed,
                    abortController, pendingContent, updateInterval,
                    cancelInsert, uiCrashed, cancelInvoked, cancelAt,
                    cancelPhase, markedMessage, configVars, chatVars >>

\* setStreamingMessage(prev => ({...prev!, content: prev!.content + text})):
\* the new message, and whether the updater dereferenced null.
AppendToStreaming(msg, text) ==
    IF msg.present THEN [msg EXCEPT !.content = msg.content \o text] ELSE msg

\* reader.read() resolves with a chunk: the loop body.
ClientRead ==
    /\ clientPc = "read"
    /\ net # <<>>
    /\ net' = Tail(net)
    /\ IF batching
       THEN \* processStreamChunk(chunk)
            /\ pendingContent' = pendingContent \o Head(net)
            /\ updateInterval' = TRUE
            /\ UNCHANGED << streamingMessage, uiCrashed >>
       ELSE /\ streamingMessage' = AppendToStreaming(streamingMessage, Head(net))
            /\ uiCrashed' = (uiCrashed \/ ~streamingMessage.present)
            /\ UNCHANGED << pendingContent, updateInterval >>
    /\ UNCHANGED << routeVars, abortSignalled, db, storeFailed, clientPc,
                    isProcessing, abortController, errorTimer, cancelInsert,
                    cancelInvoked, cancelAt, cancelPhase, markedMessage,
                    configVars, chatVars >>

\* reader.read() resolves with done: break, setStreamingMessage(null), finally.
ClientReadDone ==
    /\ clientPc = "read"
    /\ net = <<>>
    /\ ctrl = "closed"
    /\ streamingMessage' = NoMessage
    /\ isProcessing' = FALSE
    /\ clientPc' = "done"
    /\ UNCHANGED << routeVars, net, abortSignalled, db, storeFailed,
                    abortController, pendingContent, updateInterval,
                    errorTimer, cancelInsert, uiCrashed, cancelInvoked,
                    cancelAt, cancelPhase, markedMessage, configVars, chatVars >>

\* reader.read() rejects because the route errored the stream: catch.
ClientReadError ==
    /\ clientPc = "read"
    /\ net = <<>>
    /\ ctrl = "errored"
    /\ ClientCatch
    /\ UNCHANGED << routeVars, net, abortSignalled, db, storeFailed,
                    abortController, pendingContent, updateInterval,
                    cancelInsert, uiCrashed, cancelInvoked, cancelAt,
                    cancelPhase, markedMessage, configVars, chatVars >>

\* The callback of setInterval(..., 50) installed by processStreamChunk.
\* The updater reads pendingContent.current when React runs it: at once
\* (eager) it sees the pending text, at the next render it sees '' because
\* the callback has already reset the ref.
IntervalTick(eager) ==
    /\ TaskMayRun
    /\ updateInterval
    /\ IF pendingContent # <<>>
       THEN /\ streamingMessage' =
                  AppendToStreaming(streamingMessage,
                                    IF eager THEN pendingContent ELSE <<>>)
            /\ uiCrashed' = (uiCrashed \/ ~streamingMessage.present)
            /\ pendingContent' = <<>>
            /\ UNCHANGED updateInterval
       ELSE /\ updateInterval' = FALSE
            /\ UNCHANGED << streamingMessage, uiCrashed, pendingContent >>
    /\ UNCHANGED << routeVars, net, abortSignalled, db, storeFailed, clientPc,
                    isProcessing, abortController, errorTimer, cancelInsert,
                    cancelInvoked, cancelAt, cancelPhase, markedMessage,
                    configVars, chatVars >>

\* The callback of setTimeout(..., 5000) of the error recovery.
ErrorTimerFires ==
    /\ TaskMayRun
    /\ errorTimer
    /\ errorTimer' = FALSE
    /\ streamingMessage' = NoMessage
    /\ UNCHANGED << routeVars, net, abortSignalled, db, storeFailed, clientPc,
                    isProcessing, abortController, pendingContent,
                    updateInterval, cancelInsert, uiCrashed, cancelInvoked,
                    cancelAt, cancelPhase, markedMessage, configVars, chatVars >>

\* Click on Cancel (rendered while streamingMessage is non-null):
\* handleCancelResponse.  abort() rejects the pending fetch or read, whose
\* continuation (the catch of handleSendMessage) runs next as a microtask.
HandleCancelResponse ==
    /\ TaskMayRun
    /\ streamingMessage.present
    /\ abortController
    /\ abortController' = FALSE
    /\ abortSignalled' = TRUE
    /\ cancelInvoked' = TRUE
    /\ cancelAt' = IF cancelAt = -1 THEN Len(received) ELSE cancelAt
    /\ cancelPhase' = IF cancelAt = -1 THEN routePc ELSE cancelPhase
    /\ streamingMessage' = AppendToStreaming(streamingMessage, CancelledMarker)
    /\ markedMessage' = streamingMessage'
    /\ cancelInsert' = IF streamingMessage.content # <<>>
                       THEN [pending |-> TRUE,
                             content |-> streamingMessage.content \o CancelledMarker]
                       ELSE cancelInsert
    /\ clientPc' = IF clientPc \in {"fetch", "read"} THEN "abortCatch" ELSE clientPc
    /\ UNCHANGED << routeVars, net, db, storeFailed, isProcessing,
                    pendingContent, updateInterval, errorTimer, uiCrashed,
                    configVars, chatVars >>

\* The rejected await of handleSendMessage resumes: catch, finally.
ClientAbortCatch ==
    /\ clientPc = "abortCatch"
    /\ ClientCatch
    /\ UNCHANGED << routeVars, net, abortSignalled, db, storeFailed,
                    abortController, pendingContent, updateInterval,
                    cancelInsert, uiCrashed, cancelInvoked, cancelAt,
                    cancelPhase, markedMessage, configVars, chatVars >>

\* The insert of handleCancelResponse resolves: .then(() =>
\* setStreamingMessage(null)).
CancelInsertDone(ok) ==
    /\ TaskMayRun
    /\ cancelInsert.pending
    /\ StoreInsert(AssistantRow(cancelInsert.content, "client"), ok)
    /\ cancelInsert' = [cancelInsert EXCEPT !.pending = FALSE]
    /\ streamingMessage' = NoMessage
    /\ UNCHANGED << routeVars, net, abortSignalled, clientPc, isProcessing,
                    abortController, pendingContent, updateInterval,
                    errorTimer, uiCrashed, cancelInvoked, cancelAt,
                    cancelPhase, markedMessage, configVars, chatRest >>

\* ----------------------------- ChatWindow (src/components/ChatWindow.tsx)
\* What the user can type: nothing, a blank, or one of two letters.
Texts == { <<>>, <<" ">>, <<"x">>, <<"y">> }

\* What the provider can answer in the non-streaming route.
Answers == { <<>>, <<"r">> }

Apology == << "I apologize, but I was unable to generate a response." >>

\* String.prototype.trim
RECURSIVE TrimLeft(_)
TrimLeft(t) == IF t # <<>> /\ Head(t) = " " THEN TrimLeft(Tail(t)) ELSE t

RECURSIVE TrimRight(_)
TrimRight(t) ==
    IF t # <<>> /\ t[Len(t)] = " " THEN TrimRight(SubSeq(t, 1, Len(t) - 1)) ELSE t

Trim(t) == TrimRight(TrimLeft(t))

\* chat?.system_prompt ? [{ role: 'system', content: chat.system_prompt }] : []
SystemPart(c) ==
    IF c.loaded /\ ~c.system_prompt.isNull /\ c.system_prompt.text # <<>>
    THEN << [role |-> "system", content |-> c.system_prompt.text] >>
    ELSE <<>>

\* A builder that places the new turn before the history.
AllMessagesMutant(c, msgs, userMessage) ==
    SystemPart(c) \o << userMessage >> \o msgs

\* const allMessages = [...system, ...messages, userMessage]
AllMessages(c, msgs, userMessage) == SystemPart(c) \o msgs \o << userMessage >>

\* The form is rendered: not the spinner, not "Chat not found".
FormRendered == ~isLoading /\ chat.loaded

\* The chats row is selected: setChat, or catch and finally.
FetchChatDone(ok) ==
    /\ fetchPc = "chat"
    /\ IF ok
       THEN /\ chat' = [loaded |-> TRUE, system_prompt |-> dbPrompt]
            /\ fetchPc' = "messages"
            /\ UNCHANGED isLoading
       ELSE /\ fetchPc' = "done"
            /\ isLoading' = FALSE
            /\ UNCHANGED chat
    /\ UNCHANGED << dbPrompt, msgTable, messages, newMessage, fetchData,
                    channel, sendPc, closure, posted, priorAtPost, sends, refusedBusy, editorVars,
                    apiPc, aiResponse, apiResponse, isProcessing, apiLog, streamVars >>

\* The select of the messages is evaluated by the store.
FetchMessagesRun(ok) ==
    /\ fetchPc = "messages"
    /\ fetchPc' = "resolve"
    /\ fetchData' = [ok |-> ok, rows |-> IF ok THEN msgTable ELSE <<>>]
    /\ UNCHANGED << dbPrompt, msgTable, chat, messages, isLoading, newMessage,
                    channel, sendPc, closure, posted, priorAtPost, sends, refusedBusy, editorVars,
                    apiPc, aiResponse, apiResponse, isProcessing, apiLog, streamVars >>

\* initialPrompt={chat.system_prompt || 'You are a helpful assistant.'}
InitialPrompt(c) ==
    IF ~c.system_prompt.isNull /\ c.system_prompt.text # <<>>
    THEN c.system_prompt.text
    ELSE DefaultPrompt

\* The select resolves: setMessages(messagesData), or catch; finally.  The
\* render that follows shows the chat for the first time and mounts
\* SystemPromptEditor, whose state prompt starts as initialPrompt.
FetchMessagesDone ==
    /\ fetchPc = "resolve"
    /\ fetchPc' = "done"
    /\ messages' = IF fetchData.ok THEN fetchData.rows ELSE messages
    /\ isLoading' = FALSE
    /\ prompt' = InitialPrompt(chat)
    /\ UNCHANGED << dbPrompt, msgTable, chat, newMessage, fetchData, channel,
                    sendPc, closure, posted, priorAtPost, sends, refusedBusy,
                    isEditing, isSaving, saveArg, edits, apiPc,
                    aiResponse, apiResponse, isProcessing, apiLog, streamVars >>

\* The callback of the postgres_changes INSERT subscription.
RealtimeDeliver ==
    /\ channel # <<>>
    /\ messages' = Append(messages, Head(channel))
    /\ channel' = Tail(channel)
    /\ UNCHANGED << dbPrompt, msgTable, chat, isLoading, newMessage, fetchPc,
                    fetchData, sendPc, closure, posted, priorAtPost, sends, refusedBusy, editorVars,
                    apiPc, aiResponse, apiResponse, isProcessing, apiLog, streamVars >>

\* onChange of the input, which is disabled while isProcessing.
TypeMessage(t) ==
    /\ FormRendered
    /\ ~isProcessing
    /\ t # newMessage
    /\ newMessage' = t
    /\ UNCHANGED << dbPrompt, msgTable, chat, messages, isLoading, fetchPc,
                    fetchData, channel, sendPc, closure, posted, priorAtPost,
                    sends, refusedBusy, editorVars, apiPc, aiResponse, apiResponse, isProcessing,
                    apiLog, streamVars >>

\* A handler that does not look at isProcessing.
SendGuardMutant(text, processing) == Trim(text) # <<>>

\* if (!newMessage.trim() || !user || !chatId || isProcessing) return;
\* (user and chatId are set whenever the form is rendered)
SendGuard(text, processing) == Trim(text) # <<>> /\ ~processing

\* A submit of the form: handleSendMessage up to the await of the
\* user-message insert, or its early return while isProcessing.  The
\* handler works on the chat and messages of the render it belongs to.
SubmitMessage ==
    /\ FormRendered
    /\ IF SendGuard(newMessage, isProcessing)
       THEN /\ sends < MaxSends
            /\ isProcessing' = TRUE
            /\ sends' = sends + 1
            /\ closure' = [chat |-> chat, messages |-> messages,
                           userMessage |-> [role |-> "user",
                                            content |-> newMessage]]
            /\ sendPc' = "userInsert"
            /\ UNCHANGED refusedBusy
       ELSE /\ isProcessing
            /\ refusedBusy' = TRUE
            /\ UNCHANGED << isProcessing, sends, closure, sendPc >>
    /\ UNCHANGED << editorVars, dbPrompt, msgTable, chat, messages, isLoading, newMessage,
                    fetchPc, fetchData, channel, posted, priorAtPost, apiPc,
                    aiResponse, apiResponse, apiLog, streamVars >>

\* A handler that posts to /api/chat whatever the insert answered.
UserInsertDoneMutant(ok) ==
    /\ sendPc = "userInsert"
    /\ msgTable' = IF ok THEN Append(msgTable, closure.userMessage) ELSE msgTable
    /\ channel' = IF ok THEN Append(channel, closure.userMessage) ELSE channel
    /\ newMessage' = <<>>
    /\ posted' = AllMessages(closure.chat, closure.messages, closure.userMessage)
    /\ priorAtPost' = msgTable
    /\ sendPc' = "post"
    /\ apiPc' = "auth"
    /\ apiResponse' = "none"
    /\ apiLog' = NoApiLog
    /\ UNCHANGED << dbPrompt, chat, messages, isLoading, fetchPc, fetchData,
                    closure, sends, refusedBusy, editorVars, aiResponse, isProcessing, streamVars >>

\* The insert of the user message resolves.  On success: setNewMessage(''),
\* allMessages is built and posted to /api/chat.  On error: catch, finally.
UserInsertDone(ok) ==
    /\ sendPc = "userInsert"
    /\ IF ok
       THEN /\ msgTable' = Append(msgTable, closure.userMessage)
            /\ channel' = Append(channel, closure.userMessage)
            /\ newMessage' = <<>>
            /\ posted' = AllMessages(closure.chat, closure.messages,
                                     closure.userMessage)
            /\ priorAtPost' = msgTable
            /\ sendPc' = "post"
            /\ apiPc' = "auth"
            /\ apiResponse' = "none"
            /\ apiLog' = NoApiLog
            /\ UNCHANGED isProcessing
            /\ UNCHANGED refusedBusy
       ELSE /\ sendPc' = "idle"
            /\ isProcessing' = FALSE
            /\ refusedBusy' = FALSE
            /\ UNCHANGED << msgTable, channel, newMessage, posted,
                            priorAtPost, apiPc, apiResponse, apiLog >>
    /\ UNCHANGED << dbPrompt, chat, messages, isLoading, fetchPc, fetchData,
                    closure, sends, editorVars, aiResponse, streamVars >>

\* await fetch('/api/chat') resolves; a non-ok response throws into the
\* catch; finally setIsProcessing(false).
ClientPostResolved ==
    /\ sendPc = "post"
    /\ apiResponse # "none"
    /\ sendPc' = "idle"
    /\ isProcessing' = FALSE
    /\ refusedBusy' = FALSE
    /\ UNCHANGED << dbPrompt, msgTable, chat, messages, isLoading, newMessage,
                    fetchPc, fetchData, channel, closure, posted, priorAtPost,
                    sends, editorVars, apiPc, aiResponse, apiResponse, apiLog, streamVars >>

\* ------------------------------- POST /api/chat (src/app/api/chat/route.ts)
\* A route that does not verify the ownership of the chat.
AuthOutcomeMutant(token, userOk, chatOk) ==
    IF ~token \/ ~userOk THEN "401 Unauthorized" ELSE "pass"

\* The three checks in their order: the sb-access-token cookie, getUser, the
\* select of the chat with this id and this user_id.
AuthOutcome(token, userOk, chatOk) ==
    IF ~token THEN "401 Unauthorized"
    ELSE IF ~userOk THEN "401 Unauthorized"
    ELSE IF ~chatOk THEN "403 Chat not found or access denied"
    ELSE "pass"

\* The route up to the call of the provider: an early return, or pass.
ApiAuth(token, userOk, chatOk) ==
    /\ apiPc = "auth"
    /\ apiLog' = [apiLog EXCEPT !.token = token, !.userOk = userOk,
                                !.chatOk = chatOk]
    /\ IF AuthOutcome(token, userOk, chatOk) = "pass"
       THEN /\ apiPc' = "generate"
            /\ UNCHANGED apiResponse
       ELSE /\ apiPc' = "done"
            /\ apiResponse' = AuthOutcome(token, userOk, chatOk)
    /\ UNCHANGED << dbPrompt, msgTable, chat, messages, isLoading, newMessage,
                    fetchPc, fetchData, channel, sendPc, closure, posted,
                    priorAtPost, sends, refusedBusy, editorVars, aiResponse, isProcessing, streamVars >>

\* await generateChatCompletion(messages): an answer, or a throw into the
\* outer catch (500 'Internal server error').
ApiGenerate(ok, answer) ==
    /\ apiPc = "generate"
    /\ apiLog' = [apiLog EXCEPT !.providerCalls = @ + 1, !.providerThrew = ~ok]
    /\ IF ok
       THEN /\ aiResponse' = answer
            /\ apiPc' = "insert"
            /\ UNCHANGED apiResponse
       ELSE /\ apiPc' = "done"
            /\ apiResponse' = "500 Internal server error"
            /\ UNCHANGED aiResponse
    /\ UNCHANGED << dbPrompt, msgTable, chat, messages, isLoading, newMessage,
                    fetchPc, fetchData, channel, sendPc, closure, posted,
                    priorAtPost, sends, refusedBusy, editorVars, isProcessing, streamVars >>

\* content: aiResponse || 'I apologize, ...'
AssistantContent(answer) == IF answer # <<>> THEN answer ELSE Apology

\* A route that, like the streaming one, does not look at insertError.
InsertResponseMutant(ok) == "200 success"

\* if (insertError) 500 'Failed to save AI response', else { success: true }
InsertResponse(ok) ==
    IF ok THEN "200 success" ELSE "500 Failed to save AI response"

\* The insert of the assistant message resolves and the route answers.
ApiInsertDone(ok) ==
    /\ apiPc = "insert"
    /\ apiPc' = "done"
    /\ apiLog' = [apiLog EXCEPT !.inserts = @ + 1, !.insertError = ~ok]
    /\ apiResponse' = InsertResponse(ok)
    /\ IF ok
       THEN /\ msgTable' = Append(msgTable, [role |-> "assistant",
                                         content |-> AssistantContent(aiResponse)])
            /\ channel' = Append(channel, [role |-> "assistant",
                                        content |-> AssistantContent(aiResponse)])
       ELSE UNCHANGED << msgTable, channel >>
    /\ UNCHANGED << dbPrompt, chat, messages, isLoading, newMessage, fetchPc,
                    fetchData, sendPc, closure, posted, priorAtPost, sends, refusedBusy, editorVars,
                    aiResponse, isProcessing, streamVars >>

\* ------------------------------------------------------------------ Next
Next ==
    \/ RouteOpenUpstream
    \/ \E status \in ProviderErrors : RouteOpenFails(status)
    \/ \E content \in Frags : RouteChunk(content)
    \/ RouteUpstreamEnd
    \/ RouteUpstreamFault
    \/ \E ok \in BOOLEAN : RouteInsertDone(ok)
    \/ \E ok \in BOOLEAN : RouteCatchInsertDone(ok)
    \/ AbortPropagates
    \/ ClientFetchResolved
    \/ ClientRead
    \/ ClientReadDone
    \/ ClientReadError
    \/ \E eager \in BOOLEAN : IntervalTick(eager)
    \/ ErrorTimerFires
    \/ HandleCancelResponse
    \/ ClientAbortCatch
    \/ \E ok \in BOOLEAN : CancelInsertDone(ok)
    \/ RealtimeDeliver

Spec == Init /\ [][Next]_vars

\* ---------------------------------------------------- successive sessions
\* The next send of the same ChatWindow: handleSendMessage from its guard to
\* the fetch (the user message stored), which starts a new invocation of the
\* route with its own locals.  State and refs of the component stay as the
\* previous send left them.  Taken once the previous invocation of the route
\* has finished and no insert of the client is pending.
StartNextSend ==
    /\ session < MaxSessions
    /\ ~isProcessing
    /\ clientPc = "done"
    /\ routePc \in {"closed", "errored", "failed"}
    /\ ~cancelInsert.pending
    /\ session' = session + 1
    /\ sessionBase' = Len(db)
    /\ isProcessing' = TRUE
    /\ streamingMessage' = TempStreamingMessage
    /\ abortController' = TRUE
    /\ clientPc' = "fetch"
    /\ routePc' = "open"
    /\ fullResponse' = <<>>
    /\ received' = <<>>
    /\ upstream' = "open"
    /\ sent' = <<>>
    /\ ctrl' = "none"
    /\ response' = "none"
    /\ net' = <<>>
    /\ abortSignalled' = FALSE
    /\ cancelInsert' = NoInsert
    /\ cancelInvoked' = FALSE
    /\ cancelAt' = -1
    /\ cancelPhase' = "none"
    /\ markedMessage' = NoMessage
    /\ UNCHANGED << batching, errorRecovery, fragLimit, auxVars, db, channel,
                    storeFailed, pendingContent, updateInterval, errorTimer,
                    uiCrashed, chatRest >>

NextSessions ==
    \/ Next
    \/ StartNextSend

\* The first of the sessions, as in Init, with short upstream sequences.
InitSessions ==
    /\ ChatIdle
    /\ batching \in BOOLEAN
    /\ errorRecovery \in BOOLEAN
    /\ session = 1
    /\ sessionBase = 0
    /\ fragLimit = MaxSessionFrags
    /\ AuxIdle
    /\ routePc = "open"
    /\ fullResponse = <<>>
    /\ received = <<>>
    /\ upstream = "open"
    /\ sent = <<>>
    /\ ctrl = "none"
    /\ response = "none"
    /\ net = <<>>
    /\ abortSignalled = FALSE
    /\ db = <<>>
    /\ storeFailed = FALSE
    /\ clientPc = "fetch"
    /\ isProcessing = TRUE
    /\ streamingMessage = TempStreamingMessage
    /\ abortController = TRUE
    /\ pendingContent = <<>>
    /\ updateInterval = FALSE
    /\ errorTimer = FALSE
    /\ cancelInsert = NoInsert
    /\ uiCrashed = FALSE
    /\ cancelInvoked = FALSE
    /\ cancelAt = -1
    /\ cancelPhase = "none"
    /\ markedMessage = NoMessage

SpecSessions == InitSessions /\ [][NextSessions]_vars

\* ------------------------------------------- ChatWindow and POST /api/chat
\* A chat that may already hold a first exchange.
InitialTables == { <<>>,
                   << [role |-> "user", content |-> <<"x">>],
                      [role |-> "assistant", content |-> <<"r">>] >> }

Prompts == { NullPrompt, PromptOf(<<>>), PromptOf(<<"p">>) }

\* ChatWindow has just been mounted: the effect has set isLoading, started
\* fetchChat and subscribed to the INSERTs of the chat.
StreamIdle ==
    /\ batching = FALSE
    /\ errorRecovery = FALSE
    /\ session = 1
    /\ sessionBase = 0
    /\ fragLimit = MaxFrags
    /\ routePc = "idle"
    /\ fullResponse = <<>>
    /\ received = <<>>
    /\ upstream = "open"
    /\ sent = <<>>
    /\ ctrl = "none"
    /\ response = "none"
    /\ net = <<>>
    /\ abortSignalled = FALSE
    /\ db = <<>>
    /\ storeFailed = FALSE
    /\ clientPc = "idle"
    /\ streamingMessage = NoMessage
    /\ abortController = FALSE
    /\ pendingContent = <<>>
    /\ updateInterval = FALSE
    /\ errorTimer = FALSE
    /\ cancelInsert = NoInsert
    /\ uiCrashed = FALSE
    /\ cancelInvoked = FALSE
    /\ cancelAt = -1
    /\ cancelPhase = "none"
    /\ markedMessage = NoMessage

InitChat ==
    /\ StreamIdle
    /\ AuxIdle
    /\ isProcessing = FALSE
    /\ dbPrompt \in Prompts
    /\ msgTable \in InitialTables
    /\ chat = NoChat
    /\ messages = <<>>
    /\ isLoading = TRUE
    /\ newMessage = <<>>
    /\ fetchPc = "chat"
    /\ fetchData = [ok |-> TRUE, rows |-> <<>>]
    /\ channel = <<>>
    /\ sendPc = "idle"
    /\ closure = NoClosure
    /\ posted = <<>>
    /\ priorAtPost = <<>>
    /\ sends = 0
    /\ refusedBusy = FALSE
    /\ prompt = <<>>
    /\ isEditing = FALSE
    /\ isSaving = FALSE
    /\ saveArg = <<>>
    /\ edits = 0
    /\ apiPc = "idle"
    /\ aiResponse = <<>>
    /\ apiResponse = "none"
    /\ apiLog = NoApiLog

NextChat ==
    \/ \E ok \in BOOLEAN : FetchChatDone(ok)
    \/ \E ok \in BOOLEAN : FetchMessagesRun(ok)
    \/ FetchMessagesDone
    \/ RealtimeDeliver
    \/ \E t \in Texts : TypeMessage(t)
    \/ SubmitMessage
    \/ \E ok \in BOOLEAN : UserInsertDone(ok)
    \/ ClientPostResolved
    \/ \E token \in BOOLEAN, userOk \in BOOLEAN, chatOk \in BOOLEAN :
           ApiAuth(token, userOk, chatOk)
    \/ \E ok \in BOOLEAN, answer \in Answers : ApiGenerate(ok, answer)
    \/ \E ok \in BOOLEAN : ApiInsertDone(ok)

SpecChat == InitChat /\ [][NextChat]_vars

\* ------------------------------------- initial fetch and realtime inserts
\* The rows another window of the chat stores.
OtherRows == { [role |-> "user", content |-> <<"y">>],
               [role |-> "assistant", content |-> <<"r">>] }

\* A ChatWindow of the same chat in another browser window, or the route
\* working for it, inserts a row: the row is stored and the subscribers of
\* the chat are notified.
OtherWindowInsert(row) ==
    /\ Len(msgTable) < MaxRows
    /\ msgTable' = Append(msgTable, row)
    /\ channel' = Append(channel, row)
    /\ UNCHANGED << dbPrompt, chat, messages, isLoading, newMessage, fetchPc,
                    fetchData, sendPc, closure, posted, priorAtPost, sends,
                    refusedBusy, editorVars, apiPc, aiResponse, apiResponse,
                    isProcessing, apiLog, streamVars >>

\* The mounted ChatWindow, its fetch and its subscription, while other
\* windows write to the chat.
NextFetch ==
    \/ \E ok \in BOOLEAN : FetchChatDone(ok)
    \/ \E ok \in BOOLEAN : FetchMessagesRun(ok)
    \/ FetchMessagesDone
    \/ RealtimeDeliver
    \/ \E row \in OtherRows : OtherWindowInsert(row)

SpecFetch == InitChat /\ [][NextFetch]_vars

\* ------------------------------------------------------ SystemPromptEditor
\* What the user types into the textarea.
EditorTexts == { <<>>, <<"p">>, <<"q">> }

\* Click on Edit (view mode): setIsEditing(true).
ClickEdit ==
    /\ FormRendered
    /\ ~isEditing
    /\ isEditing' = TRUE
    /\ UNCHANGED << prompt, isSaving, saveArg, edits, dbPrompt, msgTable, chat,
                    messages, isLoading, newMessage, fetchPc, fetchData,
                    channel, sendPc, closure, posted, priorAtPost, sends,
                    refusedBusy, apiPc, aiResponse, apiResponse, isProcessing,
                    apiLog, streamVars >>

\* onChange of the textarea: setPrompt(e.target.value).
ChangePrompt(t) ==
    /\ FormRendered
    /\ isEditing
    /\ edits < MaxEdits
    /\ t # prompt
    /\ prompt' = t
    /\ edits' = edits + 1
    /\ UNCHANGED << isEditing, isSaving, saveArg, dbPrompt, msgTable, chat,
                    messages, isLoading, newMessage, fetchPc, fetchData,
                    channel, sendPc, closure, posted, priorAtPost, sends,
                    refusedBusy, apiPc, aiResponse, apiResponse, isProcessing,
                    apiLog, streamVars >>

\* Click on Cancel: setIsEditing(false).  The state prompt is left as typed.
ClickCancel ==
    /\ FormRendered
    /\ isEditing
    /\ isEditing' = FALSE
    /\ UNCHANGED << prompt, isSaving, saveArg, edits, dbPrompt, msgTable, chat,
                    messages, isLoading, newMessage, fetchPc, fetchData,
                    channel, sendPc, closure, posted, priorAtPost, sends,
                    refusedBusy, apiPc, aiResponse, apiResponse, isProcessing,
                    apiLog, streamVars >>

\* Click on Save (disabled while isSaving): handleSave up to the await of
\* the update issued by handleUpdateSystemPrompt.
HandleSave ==
    /\ FormRendered
    /\ isEditing
    /\ ~isSaving
    /\ isSaving' = TRUE
    /\ saveArg' = prompt
    /\ UNCHANGED << prompt, isEditing, edits, dbPrompt, msgTable, chat,
                    messages, isLoading, newMessage, fetchPc, fetchData,
                    channel, sendPc, closure, posted, priorAtPost, sends,
                    refusedBusy, apiPc, aiResponse, apiResponse, isProcessing,
                    apiLog, streamVars >>

\* The update of chats.system_prompt resolves.  Success: setChat with the
\* new prompt, then setIsEditing(false).  Error: handleUpdateSystemPrompt
\* rethrows and handleSave logs it.  finally: setIsSaving(false).
UpdateDone(ok) ==
    /\ isSaving
    /\ isSaving' = FALSE
    /\ IF ok
       THEN /\ dbPrompt' = PromptOf(saveArg)
            /\ chat' = IF chat.loaded
                       THEN [chat EXCEPT !.system_prompt = PromptOf(saveArg)]
                       ELSE chat
            /\ isEditing' = FALSE
       ELSE UNCHANGED << dbPrompt, chat, isEditing >>
    /\ UNCHANGED << prompt, saveArg, edits, msgTable, messages, isLoading,
                    newMessage, fetchPc, fetchData, channel, sendPc, closure,
                    posted, priorAtPost, sends, refusedBusy, apiPc,
                    aiResponse, apiResponse, isProcessing, apiLog, streamVars >>

\* The mounted ChatWindow and its SystemPromptEditor.
NextPrompt ==
    \/ \E ok \in BOOLEAN : FetchChatDone(ok)
    \/ \E ok \in BOOLEAN : FetchMessagesRun(ok)
    \/ FetchMessagesDone
    \/ ClickEdit
    \/ \E t \in EditorTexts : ChangePrompt(t)
    \/ ClickCancel
    \/ HandleSave
    \/ \E ok \in BOOLEAN : UpdateDone(ok)

SpecPrompt == InitChat /\ [][NextPrompt]_vars

\* --------------------------------------------------------- checkRateLimit
RateLimit == 10

RateWindow == 60000

\* How far the clock moves between two calls: one ms, or a whole window.
ClockSteps == { 1, RateWindow }

\* const userLimit = userRateLimits.get(userId) || { count: 0, resetTime: now + 60000 }
UserLimit(u) ==
    IF userRateLimits[u].present
    THEN userRateLimits[u]
    ELSE [present |-> TRUE, count |-> 0, resetTime |-> now + RateWindow]

\* What checkRateLimit(userId) returns.
CheckRateLimitResult(u) ==
    \/ now > UserLimit(u).resetTime
    \/ UserLimit(u).count < RateLimit

\* checkRateLimit(userId): the window is reopened, or the call is refused and
\* the Map left alone, or the counter is incremented.
CheckRateLimit(u) ==
    /\ calls < MaxCalls
    /\ calls' = calls + 1
    /\ userRateLimits' =
           IF now > UserLimit(u).resetTime
           THEN [userRateLimits EXCEPT ![u] =
                    [present |-> TRUE, count |-> 1, resetTime |-> now + RateWindow]]
           ELSE IF UserLimit(u).count >= RateLimit
                THEN userRateLimits
                ELSE [userRateLimits EXCEPT ![u] =
                         [UserLimit(u) EXCEPT !.count = @ + 1]]
    /\ grants' = IF CheckRateLimitResult(u)
                 THEN [grants EXCEPT ![u] = Append(@, now)]
                 ELSE grants
    /\ UNCHANGED << now, ticks, retryVars, pageVars, appVars >>

\* Time passes.
ClockTick(d) ==
    /\ ticks < MaxTicks
    /\ ticks' = ticks + 1
    /\ now' = now + d
    /\ UNCHANGED << userRateLimits, grants, calls, retryVars, pageVars, appVars >>

\* The module has just been loaded: the Map is empty.
InitRate ==
    /\ StreamIdle
    /\ ChatIdle
    /\ isProcessing = FALSE
    /\ AuxIdle

NextRate ==
    \/ \E u \in Users : CheckRateLimit(u)
    \/ \E d \in ClockSteps : ClockTick(d)

SpecRate == InitRate /\ [][NextRate]_vars

\* ------------------------------------------------------ generateWithRetry
\* What a call of generateChatCompletion can answer: a completion, or an
\* error with a status.
CallOutcomes == { "ok", "429", "500", "400", "401" }

RECURSIVE Pow2(_)
Pow2(n) == IF n = 0 THEN 1 ELSE 2 * Pow2(n - 1)

\* const delay = Math.pow(2, retries) * 1000
BackoffDelay(r) == Pow2(r) * 1000

\* A helper that waits and tries again whatever the status.
RetryableMutant(status, with500) == TRUE

\* error.status === 429 (FAQ), error.status === 429 || error.status === 500
\* (OpenAI integration guide)
Retryable(status, with500) ==
    \/ status = "429"
    \/ with500 /\ status = "500"

\* A loop that goes round once more.
LoopContinuesMutant(r, m) == r <= m

\* while (retries < maxRetries)
LoopContinues(r, m) == r < m

\* await generateChatCompletion(messages) settles: return, or catch with
\* retries++ and then the backoff or the rethrow.
RetryCall(status) ==
    /\ retryPc = "call"
    /\ attempts' = Append(attempts, status)
    /\ IF status = "ok"
       THEN /\ retryPc' = "returned"
            /\ UNCHANGED << retries, delays >>
       ELSE /\ retries' = retries + 1
            /\ IF Retryable(status, retry500)
               THEN /\ delays' = Append(delays, BackoffDelay(retries'))
                    /\ retryPc' = "wait"
               ELSE /\ retryPc' = "thrown"
                    /\ UNCHANGED delays
    /\ UNCHANGED << retry500, maxRetries, rateVars, pageVars, appVars >>

\* The setTimeout of the backoff fires: the loop condition is tested again;
\* when it fails, throw new Error(`Failed after ${maxRetries} retries`).
RetryWake ==
    /\ retryPc = "wait"
    /\ retryPc' = IF LoopContinues(retries, maxRetries) THEN "call" ELSE "failed"
    /\ UNCHANGED << retry500, maxRetries, retries, attempts, delays,
                    rateVars, pageVars, appVars >>

\* generateWithRetry(messages, maxRetries) has been called: let retries = 0
\* and the first test of the loop condition.
InitRetry ==
    /\ StreamIdle
    /\ ChatIdle
    /\ isProcessing = FALSE
    /\ RateIdle
    /\ PageIdle
    /\ retry500 \in BOOLEAN
    /\ maxRetries \in 1..MaxMaxRetries
    /\ retries = 0
    /\ retryPc = "call"
    /\ attempts = <<>>
    /\ delays = <<>>

NextRetry ==
    \/ \E status \in CallOutcomes : RetryCall(status)
    \/ RetryWake

SpecRetry == InitRetry /\ [][NextRetry]_vars

\* Every await of generateWithRetry settles: the provider answers and the
\* timer fires.
SpecRetryFair == SpecRetry /\ WF_vars(NextRetry)

\* ------------------------------------------------ AuthProvider and ChatPage
\* A page that shows the chat as soon as loading is over.
RenderMutant(loading, user) == IF loading THEN "spinner" ELSE "chat"

\* What ChatPage returns: the spinner, null, or the page with ChatWindow.
Render(loading, user) ==
    IF loading THEN "spinner"
    ELSE IF user = "none" THEN "nothing"
    ELSE "chat"

\* The state of AuthProvider becomes (loading, user): when it changed,
\* ChatPage renders again and its effect, which depends on both, is scheduled.
SetAuthState(loading, user) ==
    /\ authLoading' = loading
    /\ authUser' = user
    /\ IF loading # authLoading \/ user # authUser
       THEN /\ pageView' = Render(loading, user)
            /\ effectPending' = TRUE
            /\ redirectIssued' = FALSE
            /\ chatShown' = (chatShown \/ Render(loading, user) = "chat")
       ELSE UNCHANGED << pageView, effectPending, redirectIssued, chatShown >>

\* await supabase.auth.getSession() resolves: an error, no session, or a
\* session (then getUser is awaited).
CheckSessionDone(outcome) ==
    /\ sessionPc = "getSession"
    /\ IF outcome = "session"
       THEN /\ sessionPc' = "getUser"
            /\ UNCHANGED << authLoading, authUser, pageView, effectPending,
                            redirectIssued, chatShown >>
       ELSE /\ sessionPc' = "done"
            /\ SetAuthState(FALSE, authUser)
    /\ UNCHANGED << signOutPc, authEvents, rateVars, retryVars, appVars >>

\* await supabase.auth.getUser() resolves: setUser when there is a user, then
\* setLoading(false).
CheckSessionUser(user) ==
    /\ sessionPc = "getUser"
    /\ sessionPc' = "done"
    /\ SetAuthState(FALSE, IF user # "none" THEN user ELSE authUser)
    /\ UNCHANGED << signOutPc, authEvents, rateVars, retryVars, appVars >>

\* The callback of onAuthStateChange: SIGNED_IN with a session sets the
\* user, SIGNED_OUT sets null, anything else changes nothing.
AuthStateChange(event, user) ==
    /\ authEvents < MaxAuthEvents
    /\ authEvents' = authEvents + 1
    /\ SetAuthState(authLoading,
                    IF event = "SIGNED_IN" THEN user
                    ELSE IF event = "SIGNED_OUT" THEN "none"
                    ELSE authUser)
    /\ UNCHANGED << sessionPc, signOutPc, rateVars, retryVars, appVars >>

\* signOut(): setLoading(true) and the await of supabase.auth.signOut().
SignOutStart ==
    /\ authEvents < MaxAuthEvents
    /\ signOutPc = "idle"
    /\ authEvents' = authEvents + 1
    /\ signOutPc' = "await"
    /\ SetAuthState(TRUE, authUser)
    /\ UNCHANGED << sessionPc, rateVars, retryVars, appVars >>

\* finally of signOut: setLoading(false).
SignOutEnd ==
    /\ signOutPc = "await"
    /\ signOutPc' = "idle"
    /\ SetAuthState(FALSE, authUser)
    /\ UNCHANGED << sessionPc, authEvents, rateVars, retryVars, appVars >>

\* if (!loading && !user)
ShouldRedirect(loading, user) == ~loading /\ user = "none"

\* The effect of ChatPage runs: router.push('/') when signed out.
PageEffect ==
    /\ effectPending
    /\ effectPending' = FALSE
    /\ redirectIssued' = ShouldRedirect(authLoading, authUser)
    /\ UNCHANGED << authLoading, authUser, sessionPc, signOutPc, authEvents,
                    pageView, chatShown, rateVars, retryVars, appVars >>

\* AuthProvider and ChatPage have been mounted: loading, no user, the first
\* render done, the effects scheduled and checkSession started.
InitPage ==
    /\ StreamIdle
    /\ ChatIdle
    /\ isProcessing = FALSE
    /\ RateIdle
    /\ RetryIdle
    /\ authLoading = TRUE
    /\ authUser = "none"
    /\ sessionPc = "getSession"
    /\ signOutPc = "idle"
    /\ authEvents = 0
    /\ pageView = "spinner"
    /\ effectPending = TRUE
    /\ redirectIssued = FALSE
    /\ chatShown = FALSE

NextPage ==
    \/ \E outcome \in {"error", "none", "session"} : CheckSessionDone(outcome)
    \/ \E user \in Users \cup {"none"} : CheckSessionUser(user)
    \/ \E event \in {"SIGNED_IN", "SIGNED_OUT", "TOKEN_REFRESHED"},
          user \in Users : AuthStateChange(event, user)
    \/ SignOutStart
    \/ SignOutEnd
    \/ PageEffect

SpecPage == InitPage /\ [][NextPage]_vars

\* ============================================================ properties
\* The concatenation of a sequence of texts, in order.
RECURSIVE Flatten(_)
Flatten(ts) == IF ts = <<>> THEN <<>> ELSE Head(ts) \o Flatten(Tail(ts))

IsNonEmptyText(t) == t # <<>>

\* s is a prefix of t
IsPrefix(s, t) == Len(s) <= Len(t) /\ SubSeq(t, 1, Len(s)) = s

\* The route reached Completed (controller.close) or Errored (catch ran to
\* its end), the handler of the client has returned and no write is pending.
Quiescent ==
    /\ routePc \in {"closed", "errored", "failed"}
    /\ clientPc = "done"
    /\ ~cancelInsert.pending

\* The stream session was opened: the provider accepted the request.
SessionOpened == routePc \notin {"open", "failed"}

\* C1: every stream session that has reached a terminal state and has come to
\* rest has exactly one persisted assistant record, counting the writes of the
\* route and of the client (stated for runs in which the store accepted every
\* write).
C1_ExactlyOneRecord ==
    (Quiescent /\ SessionOpened /\ ~storeFailed) => Len(db) = 1

\* C2: after a clean end of the upstream sequence the session is Completed
\* and the persisted assistant message is the exact concatenation of the
\* fragments received, with no marker (store accepting every write).
C2_CompletedVerbatim ==
    (Quiescent /\ upstream = "ended" /\ ~storeFailed) =>
        /\ routePc = "closed"
        /\ Len(db) = 1
        /\ db[1].content = Flatten(received)

\* C3: after an upstream fault following k >= 0 fragments the session is
\* Errored and exactly one assistant message is persisted, the concatenation
\* of the k fragments followed by " [Response interrupted]" (store accepting
\* every write).
C3_ErroredMarked ==
    (Quiescent /\ upstream = "faulted" /\ ~storeFailed) =>
        /\ routePc = "errored"
        /\ Len(db) = 1
        /\ db[1].content = Flatten(received) \o InterruptedMarker

\* C4: a session cancelled by the client while the route was relaying, after
\* k fragments, has exactly one persisted assistant message, the
\* concatenation of those k fragments followed by " [Response cancelled]",
\* with and without batching (store accepting every write).
C4_CancelledMarked ==
    (Quiescent /\ cancelPhase = "relay" /\ ~storeFailed) =>
        /\ Len(db) = 1
        /\ db[1].content = Flatten(SubSeq(received, 1, cancelAt)) \o CancelledMarker

\* While the route relays, the chunks forwarded are the non-empty fragments
\* received, in order, and fullResponse is their concatenation.
C5_RelayInOrder ==
    routePc = "relay" =>
        /\ sent = SelectSeq(received, IsNonEmptyText)
        /\ fullResponse = Flatten(sent)

\* fullResponse only grows.
C5_AppendOnly == IsPrefix(fullResponse, fullResponse')

\* C5: while the route relays (session Open), every non-empty fragment taken
\* from upstream is appended to fullResponse and forwarded before the next is
\* taken; the chunks forwarded to the client are exactly the non-empty
\* fragments received, in order; fullResponse is the concatenation of the
\* chunks forwarded so far and only grows.
C5_OrderedRelay == []C5_RelayInOrder /\ [][C5_AppendOnly]_vars

\* C5 witness: three fragments taken, one of them empty, two different
\* non-empty ones forwarded, the route still relaying.
C5_Witness ==
    /\ routePc = "relay"
    /\ Len(received) = 3
    /\ Len(sent) = 2
    /\ sent[1] # sent[2]

\* C8: when the client cancels while the route is relaying or completing and
\* the upstream ends cleanly, the session has one outcome: a single record,
\* either fullResponse verbatim or a text ending in the cancellation marker
\* (store accepting every write).
C8_SingleOutcome ==
    (Quiescent /\ cancelPhase \in {"relay", "insert"} /\ upstream = "ended"
               /\ ~storeFailed) =>
        /\ Len(db) = 1
        /\ \/ db[1].content = fullResponse
           \/ /\ Len(db[1].content) > 0
              /\ db[1].content[Len(db[1].content)] = CancelledMarker[1]

\* C9: once the client has aborted the fetch of a relaying session the route
\* takes no further fragment from the upstream sequence and appends nothing
\* to fullResponse.
C9_StopsConsuming ==
    cancelPhase = "relay" =>
        /\ Len(received) = cancelAt
        /\ fullResponse = Flatten(SubSeq(received, 1, cancelAt))

\* C10: after handleCancelResponse the marked in-progress message stays as it
\* is (not extended, not replaced) until its insert has resolved.
C10_MarkedUntilPersisted ==
    (cancelInsert.pending /\ markedMessage.id = "streaming") =>
        streamingMessage = markedMessage

\* ---------------------------------------------- conversation builder
\* The stored system prompt counts as absent when the chat has none: null or
\* the empty text.
PromptAbsent(c) ==
    \/ ~c.loaded
    \/ c.system_prompt.isNull
    \/ Len(c.system_prompt.text) = 0

\* The posted list is [S] (when S is not absent), then H in its order, then T
\* as the last element, for the S, H and T the handler was given.
C6_PostedShape ==
    sendPc = "post" =>
        LET H == closure.messages
            T == closure.userMessage
            n == Len(posted)
            k == IF PromptAbsent(closure.chat) THEN 0 ELSE 1
        IN  /\ n = k + Len(H) + 1
            /\ posted[n] = T
            /\ \A i \in 1..Len(H) : posted[k + i] = H[i]
            /\ k = 1 => /\ posted[1].role = "system"
                        /\ posted[1].content = closure.chat.system_prompt.text

\* Building and posting the list leaves the messages, the chat state and the
\* stored chat record as they were.
C6_InputsUntouched ==
    (sendPc = "userInsert" /\ sendPc' = "post") =>
        /\ messages' = messages
        /\ chat' = chat
        /\ dbPrompt' = dbPrompt

\* C6: for every system prompt S (possibly absent), history H and new user
\* turn T, handleSendMessage posts [S] (omitted when absent) followed by H in
\* its order followed by T; an empty H gives [S?, T]; building the list
\* changes neither H nor the chat record.
C6_ConversationBuilder == []C6_PostedShape /\ [][C6_InputsUntouched]_vars

\* C6 witness: a list with a system turn, a history of two and the new turn
\* has been posted.
C6_Witness ==
    /\ sendPc = "post"
    /\ Len(closure.messages) = 2
    /\ Len(posted) = 4
    /\ posted[1].role = "system"
    /\ closure.messages[1] # closure.messages[2]

\* C7: when handleSendMessage posts, the history part of the posted list is
\* every message persisted for the chat before the new user turn, each once
\* and in creation order, and the new user turn is last (stated for chats
\* whose initial fetch succeeded).
C7_FullPriorHistory ==
    (sendPc = "post" /\ fetchPc = "done" /\ fetchData.ok) =>
        posted = SystemPart(closure.chat) \o priorAtPost
                     \o << closure.userMessage >>

\* ------------------------------------------------ terminal states, ordering
\* The upstream sequence ended cleanly, with some text, before any
\* cancellation reached a session still open: the session is Completed.
CompletedFirst ==
    /\ upstream = "ended"
    /\ fullResponse # <<>>
    /\ cancelPhase \notin {"open", "relay"}

\* C11: a terminal state is final.  For a session that Completed (clean end
\* of the upstream sequence), the route stays on the completion path (it
\* never enters the catch that marks the session Errored, e.g. because
\* controller.close failed) and no persistence write beyond the completion
\* write is issued for the session (store accepting every write).
C11_TerminalFinal ==
    (CompletedFirst /\ ~storeFailed) =>
        /\ routePc \in {"insert", "closed"}
        /\ Len(db) <= 1
        /\ ~cancelInsert.pending

\* Some persistence write of the session has been issued: by the route (it
\* has left the relay loop for one of its inserts) or by
\* handleCancelResponse.
WriteIssued ==
    \/ routePc \in {"insert", "catchInsert", "closed"}
    \/ db # <<>>
    \/ cancelInsert.content # <<>>

\* C12: the persistence write is issued strictly after the terminal event:
\* once a write of the session has been issued, by the route or by
\* handleCancelResponse, the route is no longer in its relay loop.
C12_WriteAfterRelay == WriteIssued => routePc # "relay"

\* The provider failed before any fragment was relayed: it rejected the
\* request, or the opened sequence raised before its first non-empty delta.
FailedBeforeOutput ==
    \/ routePc = "failed"
    \/ upstream = "faulted" /\ fullResponse = <<>>

\* C13: when the provider fails before any fragment has been relayed the
\* operation fails as a whole: no assistant record is persisted and none is
\* being written, a rejected request is answered with an error status and an
\* opened stream never ends cleanly, and once handleSendMessage has returned
\* the in-progress message of the turn is no longer shown.
C13_AtomicFailure ==
    FailedBeforeOutput =>
        /\ db = <<>>
        /\ ~cancelInsert.pending
        /\ routePc = "failed" => response = "500"
        /\ ctrl # "closed"
        /\ clientPc = "done" =>
               ~(streamingMessage.present /\ streamingMessage.id = "streaming")

\* C19: a rate-limit rejection (429) before the first fragment leaves no
\* record, and the answer the caller receives for it differs from the answer
\* given when the provider rejects the request as invalid (400).
C19_RetryableDistinct ==
    (routePc = "failed" /\ upstream = "429") =>
        /\ db = <<>>
        /\ response # OpenFailureResponse("400")

\* The page shows text t: in the in-progress message, or as the beginning of
\* a message of the list.
ViewShows(t) ==
    \/ /\ streamingMessage.present
       /\ streamingMessage.id = "streaming"
       /\ IsPrefix(streamingMessage.content, t)
       /\ streamingMessage.content # <<>>
    \/ \E i \in 1..Len(messages) : IsPrefix(t, messages[i].content)

\* C14: when the upstream sequence raises after at least one fragment was
\* relayed, then once the route has finished its catch and handleSendMessage
\* has handled the error, a persisted record begins with all the text relayed
\* and the page still shows partial text of the answer (no cancel, store
\* accepting every write).
C14_PartialPreserved ==
    (/\ upstream = "faulted"
     /\ fullResponse # <<>>
     /\ routePc = "errored"
     /\ clientPc = "done"
     /\ ~cancelInvoked
     /\ ~storeFailed) =>
        /\ \E i \in 1..Len(db) : IsPrefix(fullResponse, db[i].content)
        /\ ViewShows(fullResponse)

\* C15: the response stream is closed cleanly (controller.close) only for a
\* session whose assistant message was stored by the route.
C15_CloseOnlyIfStored ==
    ctrl = "closed" =>
        \E i \in 1..Len(db) : db[i] = AssistantRow(fullResponse, "route")

\* ------------------------------------------------------- POST /api/chat
\* The request whose answer is apiResponse left the table as the send found
\* it plus the user row: it inserted nothing.
NothingInserted == Len(msgTable) = Len(priorAtPost) + 1

\* C16: the provider is called and an assistant message inserted only for a
\* request that passed the three checks; a missing cookie or a failing
\* getUser is answered 401, a chat not found for the user 403, and in these
\* cases the provider was not called and nothing was inserted.
C16_AuthorizedOnly ==
    /\ (apiLog.providerCalls > 0 \/ apiLog.inserts > 0) =>
           (apiLog.token /\ apiLog.userOk /\ apiLog.chatOk)
    /\ apiPc = "done" =>
           /\ (~apiLog.token \/ ~apiLog.userOk) =>
                  /\ apiResponse = "401 Unauthorized"
                  /\ NothingInserted
           /\ (apiLog.token /\ apiLog.userOk /\ ~apiLog.chatOk) =>
                  /\ apiResponse = "403 Chat not found or access denied"
                  /\ NothingInserted

\* C16 witness: a request of the owner's second send was refused with 403
\* after the first send was answered and stored.
C16_Witness ==
    /\ apiPc = "done"
    /\ sends = 2
    /\ apiResponse = "403 Chat not found or access denied"
    /\ apiLog.token /\ apiLog.userOk /\ ~apiLog.chatOk
    /\ Len(priorAtPost) = 4
    /\ priorAtPost[4].role = "assistant"

\* C17: the route answers { success: true } only if it inserted exactly one
\* assistant message, with the provider's answer (or the apology for an empty
\* one), and the insert reported no error; when the provider call throws
\* nothing is inserted and the answer is 500 'Internal server error'; when
\* the insert reports an error the answer is 500 'Failed to save AI
\* response' and nothing was stored.
C17_SuccessMeansStored ==
    apiPc = "done" =>
        /\ apiResponse = "200 success" =>
               /\ apiLog.inserts = 1
               /\ ~apiLog.insertError
               /\ Len(msgTable) = Len(priorAtPost) + 2
               /\ msgTable[Len(msgTable)] =
                      [role |-> "assistant",
                       content |-> AssistantContent(aiResponse)]
        /\ apiLog.providerThrew =>
               /\ apiLog.inserts = 0
               /\ NothingInserted
               /\ apiResponse = "500 Internal server error"
        /\ apiLog.insertError =>
               /\ NothingInserted
               /\ apiResponse = "500 Failed to save AI response"

\* C17 witness: the insert of the second send's answer was refused, after the
\* first send was answered with success.
C17_Witness ==
    /\ apiPc = "done"
    /\ sends = 2
    /\ apiLog.insertError
    /\ apiResponse = "500 Failed to save AI response"
    /\ Len(priorAtPost) = 4

\* Once a request to /api/chat exists, the user message it ends with is in
\* the table, right after the rows that were there before the send.
C18_StoredBeforeAsked ==
    apiPc # "idle" =>
        /\ Len(msgTable) > Len(priorAtPost)
        /\ msgTable[Len(priorAtPost) + 1] = posted[Len(posted)]
        /\ posted[Len(posted)].role = "user"

\* A request is started only by the step that stores the user message, and
\* a send whose insert stored nothing starts no request and leaves the table
\* and the route as they were.
C18_NoRequestWithoutInsert ==
    /\ (apiPc' = "auth" /\ apiPc # "auth") =>
           /\ sendPc = "userInsert"
           /\ msgTable' = Append(msgTable, closure.userMessage)
    /\ (sendPc = "userInsert" /\ sendPc' # "userInsert" /\ msgTable' = msgTable) =>
           /\ sendPc' = "idle"
           /\ UNCHANGED << apiPc, apiResponse, apiLog, posted, channel >>

CharsOf(t) ==
    { t[i] : i \in 1..Len(t) } \ { InterruptedMarker[1], CancelledMarker[1] }

\* C20: sessions do not interfere: the text accumulated by the route, the
\* chunks forwarded to the client and every record written during a session
\* consist of fragments that session's upstream produced (client without the
\* error placeholder).
C20_SessionIsolation ==
    ~errorRecovery =>
        LET own == CharsOf(Flatten(received))
        IN  /\ CharsOf(fullResponse) \subseteq own
            /\ CharsOf(Flatten(sent)) \subseteq own
            /\ \A i \in (sessionBase + 1)..Len(db) :
                   CharsOf(db[i].content) \subseteq own

\* ---------------------------------------------------------- rate limiter
\* The number of elements of the sequence ts that lie in the interval of
\* length RateWindow ending at t.
GrantsWithin(ts, t) ==
    Cardinality({ i \in 1..Len(ts) : ts[i] > t - RateWindow /\ ts[i] <= t })

\* C21: for every user and every 60-second interval, checkRateLimit returned
\* true for at most 10 of the calls made for the user within the interval.
C21_TenPerMinute ==
    \A u \in Users : \A i \in 1..Len(grants[u]) :
        GrantsWithin(grants[u], grants[u][i]) <= RateLimit

\* ------------------------------------------------------ generateWithRetry
\* The status of the last call made.
LastStatus == attempts[Len(attempts)]

RetryTerminated == retryPc \in {"returned", "thrown", "failed"}

\* At most maxRetries calls; a return gives the first successful call; the
\* error 'Failed after maxRetries retries' is thrown exactly when maxRetries
\* calls have all failed with a retryable status.
C26_Bounded ==
    /\ Len(attempts) <= maxRetries
    /\ \A i \in 1..(Len(attempts) - 1) : Retryable(attempts[i], retry500)
    /\ retryPc = "returned" => LastStatus = "ok"
    /\ retryPc = "failed" =>
           /\ Len(attempts) = maxRetries
           /\ Retryable(LastStatus, retry500)
    /\ (/\ Len(attempts) = maxRetries
        /\ Retryable(LastStatus, retry500)) => retryPc \in {"wait", "failed"}

\* Once generateWithRetry has returned or thrown it calls no more.
C26_NoCallAfterEnd == RetryTerminated => attempts' = attempts

\* C26: generateWithRetry terminates and is bounded: for every maxRetries
\* >= 1 and every behaviour of the provider it calls generateChatCompletion
\* at most maxRetries times, returns the result of the first successful call
\* without calling again, and throws 'Failed after maxRetries retries' when
\* every call failed with a retryable error.
C26_BoundedRetry ==
    /\ []C26_Bounded
    /\ [][C26_NoCallAfterEnd]_vars
    /\ <>RetryTerminated

\* C26 witness: three calls, all refused with 429, then the final error.
C26_Witness ==
    /\ retryPc = "failed"
    /\ maxRetries = 3
    /\ attempts = << "429", "429", "429" >>
    /\ delays = << 2000, 4000, 8000 >>

\* ---------------------------------------------------------------- ChatPage
\* C22: ChatPage renders ChatWindow only when loading is false and there is
\* a user; whenever loading is false and the user is null it renders nothing
\* and redirects to '/': the redirect has been issued, or the effect that
\* issues it is scheduled.
C22_AuthenticatedOnly ==
    /\ pageView = "chat" => (~authLoading /\ authUser # "none")
    /\ (~authLoading /\ authUser = "none") =>
           /\ pageView = "nothing"
           /\ redirectIssued \/ effectPending
    /\ redirectIssued => (~authLoading /\ authUser = "none")

\* C22 witness: the chat was shown, the user signed out, and the page,
\* now empty, has redirected.
C22_Witness ==
    /\ chatShown
    /\ ~authLoading
    /\ authUser = "none"
    /\ pageView = "nothing"
    /\ redirectIssued

\* ------------------------------------------------- streaming and realtime
\* The finalized copies of the response of the session in the message list:
\* the rows the realtime subscription has appended.
FinalizedCopies == { i \in DOMAIN messages : messages[i].role = "assistant" }

\* C23: the response being streamed is never present both as the in-progress
\* streaming message and as a finalized message of the list, and once the
\* session has come to rest and every notification is delivered it is
\* present exactly once (stated for runs in which a record was stored).
C23_NeverBoth ==
    /\ (streamingMessage.present /\ streamingMessage.id = "streaming")
           => FinalizedCopies = {}
    /\ (Quiescent /\ channel = <<>> /\ ~errorTimer /\ Len(db) = 1) =>
           Cardinality(FinalizedCopies)
               + (IF streamingMessage.present THEN 1 ELSE 0) = 1

\* ---------------------------------------------------------------- batching
\* The increments reader.read() has handed to the loop of handleSendMessage:
\* the chunks enqueued by the route less those still in transit.
ClientIncrements == SubSeq(sent, 1, Len(sent) - Len(net))

\* The unbatched loop: while it runs, the in-progress message is the
\* concatenation of the increments read.
UnbatchedAssembles ==
    (~batching /\ clientPc = "read" /\ ~abortSignalled) =>
        streamingMessage.content = Flatten(ClientIncrements)

\* C24: with processStreamChunk the client assembles what the unbatched loop
\* assembles: whenever everything read has been flushed, the in-progress
\* message is the concatenation of the increments read, in order; and no
\* increment is still unflushed when the in-progress message has been
\* dropped at the end of the send.
C24_BatchingEquivalent ==
    /\ (batching /\ clientPc = "read" /\ ~abortSignalled
            /\ pendingContent = <<>>) =>
           streamingMessage.content = Flatten(ClientIncrements)
    /\ (batching /\ clientPc = "done" /\ ~streamingMessage.present) =>
           pendingContent = <<>>

\* ------------------------------------------------------ error placeholder
\* The step in which the 5000 ms timer of the error recovery fires.
TimerFired == errorTimer /\ ~errorTimer'

\* C29: the timer of the error recovery removes only the placeholder: when
\* it fires while a send is showing its in-progress streaming message, that
\* message is left as it is.
C29_TimerRemovesOnlyPlaceholder ==
    [][(TimerFired /\ streamingMessage.id = "streaming")
           => streamingMessage' = streamingMessage]_vars

\* --------------------------------------------------------- one send at a time
\* C27 (state): a send is in flight exactly while isProcessing is set, and
\* the route works only for the send in flight.
C27_InFlightIffProcessing ==
    /\ isProcessing <=> sendPc # "idle"
    /\ apiPc \in {"auth", "generate", "insert"} => sendPc = "post"

\* C27 (step): while isProcessing is set no submit starts a send, and a
\* submit attempted then inserts nothing and sends no request.
C27_BusySubmitDoesNothing ==
    /\ isProcessing => sends' = sends
    /\ (~refusedBusy /\ refusedBusy') =>
           UNCHANGED << msgTable, channel, posted, sendPc, apiPc, closure,
                        isProcessing, newMessage >>

\* C27: at most one send is in flight per ChatWindow: a submit attempted
\* while isProcessing is true inserts no message and sends no request.
C27_OneSendInFlight ==
    []C27_InFlightIffProcessing /\ [][C27_BusySubmitDoesNothing]_vars

\* C27 witness: a submit was attempted and refused while the request of the
\* send in flight was with the route; only that send's user row was stored.
C27_Witness ==
    /\ refusedBusy
    /\ sendPc = "post"
    /\ apiPc = "generate"
    /\ sends = 1
    /\ Len(msgTable) = Len(priorAtPost) + 1

\* ------------------------------------------------ initial fetch and realtime
\* C28: once the initial fetch has completed (successfully) and every
\* pending notification has been delivered, the message list holds every
\* persisted message of the chat exactly once, in created_at order.
C28_ListMatchesStore ==
    (fetchPc = "done" /\ chat.loaded /\ fetchData.ok /\ channel = <<>>)
        => messages = msgTable

\* ------------------------------------------------------ SystemPromptEditor
\* SystemPromptEditor is rendered and shows the prompt as text.
ViewMode == FormRendered /\ ~isEditing

\* C30: the system prompt shown in view mode is the system prompt the next
\* request sends: the list handleSendMessage builds from the chat of this
\* render starts with a system turn whose text is the text displayed.
C30_DisplayedIsSent ==
    ViewMode =>
        SystemPart(chat) = << [role |-> "system", content |-> prompt] >>

====
